---- MODULE Spec2Model ----
(***************************************************************************)
(* Singleton<Type, Traits, DifferentiatingType> of src/singleton.h: a      *)
(* lazily created instance per DifferentiatingType, guarded by one atomic  *)
(* word (instance_) that doubles as a one-shot spinlock.                   *)
(*                                                                         *)
(* Every thread runs get() as a sequence of atomic steps, one per access   *)
(* to shared memory:                                                       *)
(*   Load -> (fast path | TryCreate -> (New -> Store -> Register | Wait))  *)
(* Acquire/release ordering is modelled by views: released[g] is the set   *)
(* of constructions the last release-store attached to the word of g, and  *)
(* visible[t] the constructions that the synchronisation of t's current    *)
(* call alone guarantees t to see (what t learnt in earlier calls is not   *)
(* counted, which only makes the visibility property harder to meet).      *)
(***************************************************************************)
EXTENDS Integers, Sequences, FiniteSets

\* ---- bounds of the model
NumThreads == 2
NumTags == 2
HeapSize == 2
\* How many times in all Traits::New may return a null pointer.
MaxNullNews == 1

\* ---- program constants
kBeingCreatedMarker == 1

Threads == 1..NumThreads
\* One Singleton instantiation per DifferentiatingType, same Type and Traits.
Tags == 1..NumTags
\* Addresses operator new can return: neither 0 nor the marker.
Addrs == (kBeingCreatedMarker + 1)..(kBeingCreatedMarker + HeapSize)
Words == 0..(kBeingCreatedMarker + HeapSize)

VARIABLES
    instance_,        \* [Tags -> Words]: the static AtomicWord of each Singleton
    kRegisterAtExit,  \* Traits::kRegisterAtExit
    pc,               \* [Threads -> position inside get()]
    tag,              \* [Threads -> Tags]: the Singleton whose get() t runs
    value,            \* [Threads -> Words]: the local 'value' of get()
    newval,           \* [Threads -> Words]: the local 'newval' of get()
    result,           \* [Threads -> Words]: what the last get() of t returned
    allocated,        \* addresses returned by Traits::New so far
    deleted,          \* addresses passed to Traits::Delete so far
    visible,          \* [Threads -> SUBSET Addrs]: constructions t must see
    released,         \* [Tags -> SUBSET Addrs]: view attached to the word
    atexit,           \* AtExitManager's callbacks, a sequence of Tags
    exited,           \* Tags whose OnExit has run
    \* ---- history variables (observers, never read by the program)
    casWins,          \* [Tags -> Nat]: compare-and-swaps 0 -> 1 that succeeded
    newCalls,         \* [Tags -> Nat]: invocations of Traits::New
    deleteCalls,      \* [Tags -> Nat]: invocations of Traits::Delete
    stores,           \* [Tags -> Seq(Words)]: every value written to the word
    via               \* [Threads -> the return statement t's last get() took]

vars == <<instance_, kRegisterAtExit, pc, tag, value, newval, result, allocated,
          deleted, visible, released, atexit, exited, casWins, newCalls,
          deleteCalls, stores, via>>

heapVars == <<allocated, deleted>>
exitVars == <<atexit, exited, deleteCalls>>
createHist == <<casWins, newCalls>>

\* ---- pure pieces of get()

\* Variant: one word shared by every DifferentiatingType.
WordOf_Shared(g) == 1

\* singleton.h:205-209: instance_ is a static member of the class template, so
\* every DifferentiatingType has a word of its own.
WordOf(g) == g

\* Variant: the fast path forgets the marker.
IsCreated_NonZero(v) == v # 0

\* Variant: the test of the fast path never succeeds.
IsCreated_Never(v) == FALSE

\* singleton.h:168, the test of the fast path.
IsCreated(v) == v # 0 /\ v # kBeingCreatedMarker

\* Variant: an exchange that writes the new value whatever it finds.
Acquire_CompareAndSwap_Unconditional(word, old, new) ==
    [prev |-> word, word |-> new]

\* subtle::Acquire_CompareAndSwap(&word, old, new), singleton.h:173-174:
\* 'prev' is what it returns, 'word' is what it leaves in memory.
Acquire_CompareAndSwap(word, old, new) ==
    [prev |-> word, word |-> IF word = old THEN new ELSE word]

\* Variant: the swap counts as won unless it met the marker.
CasWon_NotMarker(prev) == prev # kBeingCreatedMarker

\* singleton.h:173-174: '... == 0', the caller's test that its swap took place.
CasWon(prev) == prev = 0

\* DefaultSingletonTraits::New: 'new Type()' yields an address not in use.
New(heap) == Addrs \ heap

\* Variant: registration without looking at Traits::kRegisterAtExit.
RegisterCallback_Always(callbacks, g, rae, nv) == Append(callbacks, g)

\* singleton.h:184-185 are commented out: the creator registers nothing,
\* whatever Traits::kRegisterAtExit says.
RegisterCallback(callbacks, g, rae, nv) == callbacks

\* singleton.h:209 (every instance_ is 0) and the Traits in use, whose
\* kRegisterAtExit is rae.
InitTraits(rae) ==
    /\ instance_ = [g \in Tags |-> 0]
    /\ kRegisterAtExit = rae
    /\ pc = [t \in Threads |-> "idle"]
    /\ tag = [t \in Threads |-> 1]
    /\ value = [t \in Threads |-> 0]
    /\ newval = [t \in Threads |-> 0]
    /\ result = [t \in Threads |-> 0]
    /\ allocated = {}
    /\ deleted = {}
    /\ visible = [t \in Threads |-> {}]
    /\ released = [g \in Tags |-> {}]
    /\ atexit = <<>>
    /\ exited = {}
    /\ casWins = [g \in Tags |-> 0]
    /\ newCalls = [g \in Tags |-> 0]
    /\ deleteCalls = [g \in Tags |-> 0]
    /\ stores = [g \in Tags |-> <<>>]
    /\ via = [t \in Threads |-> "none"]

\* singleton.h:61: DefaultSingletonTraits, the Traits a Singleton gets unless
\* told otherwise.
Init == InitTraits(FALSE)

\* Traits of the caller's own: kRegisterAtExit is whatever they say.
InitAnyTraits == \E rae \in BOOLEAN : InitTraits(rae)

\* t is not inside get().
Outside(t) == pc[t] \in {"idle", "returned"}

\* The return statements of get() (singleton.h:169, 187, 193): t leaves the
\* call with r; its locals die.
Return(t, r, how) ==
    /\ pc' = [pc EXCEPT ![t] = "returned"]
    /\ result' = [result EXCEPT ![t] = r]
    /\ via' = [via EXCEPT ![t] = how]
    /\ value' = [value EXCEPT ![t] = 0]
    /\ newval' = [newval EXCEPT ![t] = 0]

\* singleton.h:167-170: t calls get() of g; the acquire-load and the fast path.
\* No thread calls get() once the exit callbacks have begun to run.
Load(t, g) ==
    /\ Outside(t)
    /\ exited = {}
    /\ tag' = [tag EXCEPT ![t] = g]
    /\ visible' = [visible EXCEPT ![t] = released[WordOf(g)]]
    /\ IF IsCreated(instance_[WordOf(g)])
       THEN Return(t, instance_[WordOf(g)], "fast")
       ELSE /\ pc' = [pc EXCEPT ![t] = "cas"]
            /\ value' = [value EXCEPT ![t] = instance_[WordOf(g)]]
            /\ via' = [via EXCEPT ![t] = "none"]
            /\ UNCHANGED <<newval, result>>
    /\ UNCHANGED <<instance_, kRegisterAtExit, heapVars, released, exitVars,
                   createHist, stores>>

\* Variant: check-then-set on the value loaded earlier instead of an atomic
\* compare-and-swap.
TryCreate_CheckThenSet(t) ==
    /\ pc[t] = "cas"
    /\ LET w == WordOf(tag[t])
       IN IF value[t] = 0
          THEN /\ instance_' = [instance_ EXCEPT ![w] = kBeingCreatedMarker]
               /\ stores' = [stores EXCEPT ![w] = Append(@, kBeingCreatedMarker)]
               /\ pc' = [pc EXCEPT ![t] = "new"]
               /\ casWins' = [casWins EXCEPT ![tag[t]] = @ + 1]
          ELSE /\ pc' = [pc EXCEPT ![t] = "wait"]
               /\ UNCHANGED <<instance_, stores, casWins>>
    /\ UNCHANGED <<kRegisterAtExit, tag, value, newval, result, heapVars,
                   visible, released, exitVars, newCalls, via>>

\* singleton.h:173-174 and 190-191: the compare-and-swap; the loser goes on to
\* WaitForInstance.
TryCreate(t) ==
    /\ pc[t] = "cas"
    /\ LET w == WordOf(tag[t])
           cas == Acquire_CompareAndSwap(instance_[w], 0, kBeingCreatedMarker)
       IN /\ instance_' = [instance_ EXCEPT ![w] = cas.word]
          /\ visible' = [visible EXCEPT ![t] = @ \cup released[w]]
          /\ stores' = IF cas.word # instance_[w]
                       THEN [stores EXCEPT ![w] = Append(@, cas.word)]
                       ELSE stores
          /\ IF CasWon(cas.prev)
             THEN /\ pc' = [pc EXCEPT ![t] = "new"]
                  /\ casWins' = [casWins EXCEPT ![tag[t]] = @ + 1]
             ELSE /\ pc' = [pc EXCEPT ![t] = "wait"]
                  /\ UNCHANGED casWins
    /\ UNCHANGED <<kRegisterAtExit, tag, value, newval, result, heapVars,
                   released, exitVars, newCalls, via>>

\* Variant: the exit callback is registered as soon as the object exists,
\* before it is published.
Create_Registering(t) ==
    /\ pc[t] = "new"
    /\ \E a \in New(allocated) :
        /\ newval' = [newval EXCEPT ![t] = a]
        /\ allocated' = allocated \cup {a}
        /\ visible' = [visible EXCEPT ![t] = @ \cup {a}]
    /\ pc' = [pc EXCEPT ![t] = "store"]
    /\ newCalls' = [newCalls EXCEPT ![tag[t]] = @ + 1]
    /\ atexit' = IF kRegisterAtExit THEN Append(atexit, tag[t]) ELSE atexit
    /\ UNCHANGED <<instance_, kRegisterAtExit, tag, value, result, deleted,
                   released, exited, deleteCalls, casWins, stores, via>>

\* Variant: Traits::New goes ahead only once nobody waits for the instance, as
\* if the waiters held something the creator needs.
Create_BehindWaiters(t) ==
    /\ pc[t] = "new"
    /\ ~\E u \in Threads : pc[u] = "wait" /\ tag[u] = tag[t]
    /\ \E a \in New(allocated) :
        /\ newval' = [newval EXCEPT ![t] = a]
        /\ allocated' = allocated \cup {a}
        /\ visible' = [visible EXCEPT ![t] = @ \cup {a}]
    /\ pc' = [pc EXCEPT ![t] = "store"]
    /\ newCalls' = [newCalls EXCEPT ![tag[t]] = @ + 1]
    /\ UNCHANGED <<instance_, kRegisterAtExit, tag, value, result, deleted,
                   released, exitVars, casWins, stores, via>>

\* singleton.h:178: Type* newval = Traits::New().
Create(t) ==
    /\ pc[t] = "new"
    /\ \E a \in New(allocated) :
        /\ newval' = [newval EXCEPT ![t] = a]
        /\ allocated' = allocated \cup {a}
        /\ visible' = [visible EXCEPT ![t] = @ \cup {a}]
    /\ pc' = [pc EXCEPT ![t] = "store"]
    /\ newCalls' = [newCalls EXCEPT ![tag[t]] = @ + 1]
    /\ UNCHANGED <<instance_, kRegisterAtExit, tag, value, result, deleted,
                   released, exitVars, casWins, stores, via>>

\* Variant: a store without release ordering (NoBarrier_Store).
Store_NoBarrier(t) ==
    /\ pc[t] = "store"
    /\ LET w == WordOf(tag[t])
       IN /\ instance_' = [instance_ EXCEPT ![w] = newval[t]]
          /\ stores' = [stores EXCEPT ![w] = Append(@, newval[t])]
    /\ pc' = [pc EXCEPT ![t] = "register"]
    /\ UNCHANGED <<kRegisterAtExit, tag, value, newval, result, heapVars,
                   visible, released, exitVars, createHist, via>>

\* Variant: the creator never publishes newval.
Store_Lost(t) ==
    /\ pc[t] = "store"
    /\ pc' = [pc EXCEPT ![t] = "register"]
    /\ UNCHANGED <<instance_, kRegisterAtExit, tag, value, newval, result,
                   heapVars, visible, released, exitVars, createHist, stores,
                   via>>

\* Variant: the creator checks newval and stores it only when it is not null.
Store_SkipsNull(t) ==
    /\ pc[t] = "store"
    /\ LET w == WordOf(tag[t])
       IN IF newval[t] = 0
          THEN UNCHANGED <<instance_, released, stores>>
          ELSE /\ instance_' = [instance_ EXCEPT ![w] = newval[t]]
               /\ released' = [released EXCEPT ![w] = visible[t]]
               /\ stores' = [stores EXCEPT ![w] = Append(@, newval[t])]
    /\ pc' = [pc EXCEPT ![t] = "register"]
    /\ UNCHANGED <<kRegisterAtExit, tag, value, newval, result, heapVars,
                   visible, exitVars, createHist, via>>

\* singleton.h:181-182: the release-store of newval.
Store(t) ==
    /\ pc[t] = "store"
    /\ LET w == WordOf(tag[t])
       IN /\ instance_' = [instance_ EXCEPT ![w] = newval[t]]
          /\ released' = [released EXCEPT ![w] = visible[t]]
          /\ stores' = [stores EXCEPT ![w] = Append(@, newval[t])]
    /\ pc' = [pc EXCEPT ![t] = "register"]
    /\ UNCHANGED <<kRegisterAtExit, tag, value, newval, result, heapVars,
                   visible, exitVars, createHist, via>>

\* singleton.h:184-187: the (commented-out) registration, and 'return newval'.
Register(t) ==
    /\ pc[t] = "register"
    /\ atexit' = RegisterCallback(atexit, tag[t], kRegisterAtExit, newval[t])
    /\ Return(t, newval[t], "created")
    /\ UNCHANGED <<instance_, kRegisterAtExit, tag, heapVars, visible, released,
                   exited, deleteCalls, createHist, stores>>

\* Variant: the wait gives up after a while and get() returns the marker it
\* last loaded.
WaitForInstance_TimesOut(t) ==
    /\ pc[t] = "wait"
    /\ visible' = [visible EXCEPT ![t] = @ \cup released[WordOf(tag[t])]]
    /\ Return(t, instance_[WordOf(tag[t])], "waited")
    /\ UNCHANGED <<instance_, kRegisterAtExit, tag, heapVars, released,
                   exitVars, createHist, stores>>

\* internal::WaitForInstance (declared at singleton.h:35, called at 191-193):
\* the loop re-loads the word with acquire ordering until it is no longer the
\* marker, and get() returns what it loaded. A turn that still finds the
\* marker changes nothing.
WaitForInstance(t) ==
    /\ pc[t] = "wait"
    /\ instance_[WordOf(tag[t])] # kBeingCreatedMarker
    /\ visible' = [visible EXCEPT ![t] = @ \cup released[WordOf(tag[t])]]
    /\ Return(t, instance_[WordOf(tag[t])], "waited")
    /\ UNCHANGED <<instance_, kRegisterAtExit, tag, heapVars, released,
                   exitVars, createHist, stores>>

\* Variant: singleton.h:203 live, 'instance_ = 0'.
OnExit_ResetsWord(g) ==
    /\ \A t \in Threads : Outside(t)
    /\ g \notin exited
    /\ exited' = exited \cup {g}
    /\ instance_' = [instance_ EXCEPT ![WordOf(g)] = 0]
    /\ stores' = IF instance_[WordOf(g)] # 0
                 THEN [stores EXCEPT ![WordOf(g)] = Append(@, 0)]
                 ELSE stores
    /\ UNCHANGED <<kRegisterAtExit, pc, tag, value, newval, result, heapVars,
                   visible, released, atexit, deleteCalls, createHist, via>>

\* Variant: singleton.h:202 live, Traits::Delete of whatever the word holds.
OnExit_Deletes(g) ==
    /\ \A t \in Threads : Outside(t)
    /\ g \notin exited
    /\ exited' = exited \cup {g}
    /\ deleted' = deleted \cup {instance_[WordOf(g)]}
    /\ deleteCalls' = [deleteCalls EXCEPT ![g] = @ + 1]
    /\ UNCHANGED <<instance_, kRegisterAtExit, pc, tag, value, newval, result,
                   allocated, visible, released, atexit, createHist, stores,
                   via>>

\* singleton.h:199-204: OnExit, whose body is commented out. It is private:
\* it runs as the exit callback or from the friend
\* internal::DeleteTraceLogForTesting, single threaded, once per Singleton.
OnExit(g) ==
    /\ \A t \in Threads : Outside(t)
    /\ g \notin exited
    /\ exited' = exited \cup {g}
    /\ UNCHANGED <<instance_, kRegisterAtExit, pc, tag, value, newval, result,
                   heapVars, visible, released, atexit, deleteCalls,
                   createHist, stores, via>>

\* The steps of t inside get().
\* singleton.h:178 with a Type whose constructor calls get() of the instance
\* being created: the nested call runs lines 167-193 on the creator's own
\* thread while the outer call stays inside Traits::New. "new:cas" and
\* "new:wait" are the nested call's positions; when the nested call returns,
\* the constructor goes on (pc "new"). A nested call that won the
\* compare-and-swap would start a creation of its own.
Reenter(t) ==
    LET w == WordOf(tag[t])
        cas == Acquire_CompareAndSwap(instance_[w], 0, kBeingCreatedMarker)
    IN /\ pc[t] \in {"new", "new:cas", "new:wait"}
       /\ visible' = [visible EXCEPT ![t] = @ \cup released[w]]
       /\ CASE pc[t] = "new" ->
                 /\ pc' = [pc EXCEPT ![t] = IF IsCreated(instance_[w])
                                            THEN "new" ELSE "new:cas"]
                 /\ value' = [value EXCEPT ![t] = instance_[w]]
                 /\ UNCHANGED <<instance_, stores, casWins>>
            [] pc[t] = "new:cas" ->
                 /\ instance_' = [instance_ EXCEPT ![w] = cas.word]
                 /\ stores' = IF cas.word # instance_[w]
                              THEN [stores EXCEPT ![w] = Append(@, cas.word)]
                              ELSE stores
                 /\ pc' = [pc EXCEPT ![t] = IF CasWon(cas.prev)
                                            THEN "new" ELSE "new:wait"]
                 /\ casWins' = [casWins EXCEPT ![tag[t]] =
                                   IF CasWon(cas.prev) THEN @ + 1 ELSE @]
                 /\ UNCHANGED value
            [] pc[t] = "new:wait" ->
                 /\ instance_[w] # kBeingCreatedMarker
                 /\ pc' = [pc EXCEPT ![t] = "new"]
                 /\ UNCHANGED <<instance_, stores, casWins, value>>
       /\ UNCHANGED <<kRegisterAtExit, tag, newval, result, heapVars, released,
                      exitVars, newCalls, via>>

Step(t) ==
    \/ TryCreate(t)
    \/ Create(t)
    \/ Store(t)
    \/ Register(t)
    \/ WaitForInstance(t)

Next ==
    \/ \E t \in Threads, g \in Tags : Load(t, g)
    \/ \E t \in Threads : TryCreate(t)
    \/ \E t \in Threads : Create(t)
    \/ \E t \in Threads : Store(t)
    \/ \E t \in Threads : Register(t)
    \/ \E t \in Threads : WaitForInstance(t)
    \/ \E g \in Tags : OnExit(g)

Spec == Init /\ [][Next]_vars

TraitsSpec == InitAnyTraits /\ [][Next]_vars

\* The specified state machine's get() where it differs from the code: a load
\* that finds the marker goes straight to the wait loop, with no
\* compare-and-swap (the code has no such shortcut, singleton.h:167-174).
SpecLoadBeingCreated(t, g) ==
    /\ Outside(t)
    /\ exited = {}
    /\ instance_[WordOf(g)] = kBeingCreatedMarker
    /\ tag' = [tag EXCEPT ![t] = g]
    /\ visible' = [visible EXCEPT ![t] = released[WordOf(g)]]
    /\ pc' = [pc EXCEPT ![t] = "wait"]
    /\ value' = [value EXCEPT ![t] = instance_[WordOf(g)]]
    /\ via' = [via EXCEPT ![t] = "none"]
    /\ UNCHANGED <<instance_, kRegisterAtExit, newval, result, heapVars,
                   released, exitVars, createHist, stores>>

\* singleton.h:167-174 run by t with no other thread in between: the
\* acquire-load that misses the fast path, then the compare-and-swap.
LoadThenSwap(t, g) ==
    LET w == WordOf(g)
        cas == Acquire_CompareAndSwap(instance_[w], 0, kBeingCreatedMarker)
    IN /\ Outside(t)
       /\ exited = {}
       /\ ~IsCreated(instance_[w])
       /\ tag' = [tag EXCEPT ![t] = g]
       /\ visible' = [visible EXCEPT ![t] = released[w]]
       /\ value' = [value EXCEPT ![t] = instance_[w]]
       /\ via' = [via EXCEPT ![t] = "none"]
       /\ instance_' = [instance_ EXCEPT ![w] = cas.word]
       /\ stores' = IF cas.word # instance_[w]
                    THEN [stores EXCEPT ![w] = Append(@, cas.word)]
                    ELSE stores
       /\ IF CasWon(cas.prev)
          THEN /\ pc' = [pc EXCEPT ![t] = "new"]
               /\ casWins' = [casWins EXCEPT ![g] = @ + 1]
          ELSE /\ pc' = [pc EXCEPT ![t] = "wait"]
               /\ UNCHANGED casWins
       /\ UNCHANGED <<kRegisterAtExit, newval, result, heapVars, released,
                      exitVars, newCalls>>

\* The code's threads and the specified machine's threads side by side.
EquivNext ==
    Next \/ \E t \in Threads, g \in Tags : SpecLoadBeingCreated(t, g)

EquivSpec == Init /\ [][EquivNext]_vars

\* The null pointers Traits::New has returned so far: those already stored
\* into a word and those a creator is about to store.
NullNews ==
    Cardinality({t \in Threads : pc[t] = "store" /\ newval[t] = 0})
    + Cardinality({p \in Tags \X (1..(2 * (MaxNullNews + 1))) :
                      /\ p[2] <= Len(stores[p[1]])
                      /\ stores[p[1]][p[2]] = 0})

\* singleton.h:178 with a Traits whose New returns a null pointer (the
\* template takes any Traits, singleton.h:142-145): newval is 0.
CreateNull(t) ==
    /\ pc[t] = "new"
    /\ NullNews < MaxNullNews
    /\ newval' = [newval EXCEPT ![t] = 0]
    /\ pc' = [pc EXCEPT ![t] = "store"]
    /\ newCalls' = [newCalls EXCEPT ![tag[t]] = @ + 1]
    /\ UNCHANGED <<instance_, kRegisterAtExit, tag, value, result, heapVars,
                   visible, released, exitVars, casWins, stores, via>>

\* The program with a Traits whose New may return null.
NullNext == Next \/ \E t \in Threads : CreateNull(t)

NullSpec == Init /\ [][NullNext]_vars

\* The program with a Type whose constructor may call get() again.
ReentrantNext == Next \/ \E t \in Threads : Reenter(t)

ReentrantSpec == Init /\ [][ReentrantNext]_vars

\* Every thread inside get() keeps being scheduled: the operating system
\* runs each native thread, and no step of get() waits for a lock. Calling
\* get() at all, and running OnExit, are left to the environment.
FairSpec == Spec /\ \A t \in Threads : WF_vars(Step(t))

\* ---- properties

\* What t holds: a step of thread t is a step that changes it.
Locals(t) == <<pc[t], tag[t], value[t], newval[t], result[t], visible[t], via[t]>>

\* The number of callbacks registered for g.
Registered(g) == Cardinality({i \in 1..Len(atexit) : atexit[i] = g})

\* C1: however the callers of get() interleave, at most one compare-and-swap
\* 0 -> marker succeeds per instance, Traits::New is invoked only by the
\* thread whose swap succeeded, once (every win is either still on its way to
\* New or has made exactly one call), and once the word has left 0 or a call
\* has returned exactly one swap has succeeded.
C1_SingleCreation ==
    \A g \in Tags :
        /\ casWins[g] <= 1
        /\ newCalls[g]
             + Cardinality({t \in Threads : pc[t] = "new" /\ tag[t] = g})
           = casWins[g]
        /\ instance_[g] # 0 => casWins[g] = 1
        /\ (\E t \in Threads : pc[t] = "returned" /\ tag[t] = g)
             => newCalls[g] = 1

\* Two first-time callers raced: both loaded 0, one won the swap and has
\* created, the other lost it and waits.
C1_Witness ==
    \E t, u \in Threads :
        /\ t # u /\ tag[t] = tag[u]
        /\ pc[t] = "store" /\ pc[u] = "wait" /\ value[u] = 0
        /\ casWins[tag[t]] = 1 /\ newCalls[tag[t]] = 1

\* C2: every get() that has returned, by whichever return statement, returned
\* the one address the creator stored into the word (the second and last
\* write to it, after the marker); so any two returns on the same instance
\* agree.
C2_SameAddress ==
    /\ \A t \in Threads :
        pc[t] = "returned" =>
            /\ Len(stores[tag[t]]) = 2
            /\ stores[tag[t]][1] = kBeingCreatedMarker
            /\ result[t] = stores[tag[t]][2]
            /\ result[t] = instance_[tag[t]]
    /\ \A t, u \in Threads :
        pc[t] = "returned" /\ pc[u] = "returned" /\ tag[t] = tag[u]
            => result[t] = result[u]

\* The creator and a fast-path caller of the same instance have both returned.
C2_Witness ==
    \E t, u \in Threads :
        /\ pc[t] = "returned" /\ pc[u] = "returned" /\ tag[t] = tag[u]
        /\ via[t] = "created" /\ via[u] = "fast"
        /\ result[t] = result[u]

\* C3: a value returned by get() is never 0 and never the marker; it is the
\* address of an object whose Traits::New has completed, the release-store
\* publishing it has taken place, and the returning thread has synchronised
\* with that store (the construction is in its view).
C3_Visibility ==
    \A t \in Threads :
        pc[t] = "returned" =>
            /\ IsCreated(result[t])
            /\ result[t] \in allocated
            /\ newCalls[tag[t]] >= 1
            /\ result[t] \in released[tag[t]]
            /\ instance_[tag[t]] = result[t]
            /\ result[t] \in visible[t]

\* A thread that lost the race has returned from the wait loop.
C3_Witness ==
    \E t \in Threads :
        /\ pc[t] = "returned" /\ via[t] = "waited"
        /\ result[t] \in visible[t]

\* C4: under fair scheduling every call of get() returns, with a created
\* address.
C4_Termination ==
    \A t \in Threads :
        (~Outside(t)) ~> (pc[t] = "returned" /\ IsCreated(result[t]))

\* Every thread has returned from get() of the same instance, one of them
\* after creating it and another after waiting for it.
C4_Witness ==
    \E g \in Tags :
        /\ \A t \in Threads : pc[t] = "returned" /\ tag[t] = g
        /\ \E t \in Threads : via[t] = "created"
        /\ \E t \in Threads : via[t] = "waited"

\* C5: from a state whose word is Created(addr), no step changes the word or
\* invokes Traits::New (its count is 1 and stays 1, and no further swap
\* succeeds), and a get() called in that state returns addr.
C5_Idempotence ==
    [][\A g \in Tags :
        IsCreated(instance_[g]) =>
            /\ instance_'[g] = instance_[g]
            /\ newCalls[g] = 1 /\ newCalls'[g] = 1
            /\ casWins'[g] = casWins[g]
            /\ \A t \in Threads :
                Outside(t) /\ Locals(t)' # Locals(t) /\ tag'[t] = g
                    => pc'[t] = "returned" /\ result'[t] = instance_[g]]_vars

\* Both threads are outside get() after calls on a created instance, one of
\* them by the fast path.
C5_Witness ==
    \E t \in Threads :
        /\ pc[t] = "returned" /\ via[t] = "fast"
        /\ newCalls[tag[t]] = 1
        /\ \A u \in Threads : Outside(u)

\* C6: the word starts at 0; a step that changes it goes from 0 to the marker
\* (the first write) or from the marker to a created address (the second
\* write), so nothing leads back to 0, out of Created or to another address;
\* OnExit leaves every word as it was.
C6_WordLifecycle ==
    /\ \A g \in Tags : instance_[g] = 0
    /\ [][\A g \in Tags :
            /\ instance_'[g] # instance_[g] =>
                \/ /\ instance_[g] = 0
                   /\ instance_'[g] = kBeingCreatedMarker
                   /\ stores[g] = <<>>
                \/ /\ instance_[g] = kBeingCreatedMarker
                   /\ IsCreated(instance_'[g])
                   /\ stores[g] = <<kBeingCreatedMarker>>
            /\ exited' # exited => instance_' = instance_]_vars

\* OnExit has run for an instance that was created.
C6_Witness ==
    \E g \in exited :
        /\ IsCreated(instance_[g])
        /\ stores[g] = <<kBeingCreatedMarker, instance_[g]>>

\* C7: a step of get() on one tag leaves the word of every other tag, and
\* the creation history of every other tag, unchanged; two created tags hold
\* different instances.
C7_TagsIndependent ==
    /\ [][\A t \in Threads :
            Locals(t)' # Locals(t) =>
                \A h \in Tags \ {tag'[t]} :
                    /\ instance_'[h] = instance_[h]
                    /\ released'[h] = released[h]
                    /\ casWins'[h] = casWins[h]
                    /\ newCalls'[h] = newCalls[h]]_vars
    /\ [](\A g, h \in Tags :
            g # h /\ IsCreated(instance_[g]) /\ IsCreated(instance_[h])
                => instance_[g] # instance_[h])

\* One tag is created and in use while the other is still untouched.
C7_Witness ==
    \E g, h \in Tags :
        /\ IsCreated(instance_[g]) /\ newCalls[g] = 1
        /\ \E t \in Threads : pc[t] = "returned" /\ tag[t] = g
        /\ instance_[h] = 0 /\ newCalls[h] = 0 /\ casWins[h] = 0

C9_RegistrationOnce ==
    kRegisterAtExit =>
        \A g \in Tags :
            (/\ IsCreated(instance_[g])
             /\ ~\E t \in Threads : pc[t] = "register" /\ tag[t] = g)
                => Registered(g) = 1

C11_CreateUnderMarker ==
    \A g \in Tags :
        LET creating == {t \in Threads : pc[t] = "new" /\ tag[t] = g}
        IN /\ Cardinality(creating) <= 1
           /\ creating # {} => instance_[g] = kBeingCreatedMarker

\* A thread is inside Traits::New while another caller of the same instance
\* has loaded the word but not yet tried its swap.
C11_Witness ==
    \E t, u \in Threads :
        /\ t # u /\ tag[t] = tag[u]
        /\ pc[t] = "new" /\ pc[u] = "cas"
        /\ instance_[tag[t]] = kBeingCreatedMarker

\* C12: a get() whose first load finds a created address returns that
\* address in the same step, by the fast path: the step writes nothing to the
\* word, wins no swap, calls no Traits::New, and the thread passes through
\* neither the swap nor the wait loop.
C12_FastPath ==
    [][\A t \in Threads :
        (/\ Outside(t)
         /\ Locals(t)' # Locals(t)
         /\ instance_[tag'[t]] \in Addrs) =>
            /\ pc'[t] = "returned"
            /\ via'[t] = "fast"
            /\ result'[t] = instance_[tag'[t]]
            /\ instance_' = instance_
            /\ stores' = stores
            /\ released' = released
            /\ casWins' = casWins
            /\ newCalls' = newCalls
            /\ allocated' = allocated]_vars

\* A thread has returned by the fast path from an instance another thread
\* created, while that creator has moved on to the other instance.
C12_Witness ==
    \E t, u \in Threads :
        /\ pc[t] = "returned" /\ via[t] = "fast"
        /\ result[t] = instance_[tag[t]]
        /\ tag[u] # tag[t] /\ ~Outside(u)

\* C13: whatever the other threads are doing (loading, losing the swap,
\* waiting), the thread that won the swap can take its next step: Traits::New
\* while it has not created, the release-store while it has not published.
\* So whenever some thread is inside get(), some thread inside get() can move.
C13_CreatorNeverBlocked ==
    /\ \A t \in Threads :
        /\ pc[t] = "new" => ENABLED Create(t)
        /\ pc[t] = "store" => ENABLED Store(t)
    /\ (\E t \in Threads : ~Outside(t)) => ENABLED (\E t \in Threads : Step(t))

\* The creator has not yet created and every other thread waits for it.
C13_Witness ==
    \E t \in Threads :
        /\ pc[t] = "new"
        /\ \A u \in Threads \ {t} : pc[u] = "wait" /\ tag[u] = tag[t]

C15_WaitOnlyEndsOnCreated ==
    [][/\ \A t \in Threads :
            (pc[t] = "wait" /\ pc'[t] # "wait") =>
                /\ pc'[t] = "returned"
                /\ instance_[tag[t]] \in Addrs
                /\ result'[t] = instance_[tag[t]]
                /\ instance_' = instance_
       /\ \A g \in Tags :
            instance_[g] = kBeingCreatedMarker =>
                /\ instance_'[g] # kBeingCreatedMarker =>
                       \E t \in Threads :
                           tag[t] = g /\ pc[t] = "store" /\ pc'[t] = "register"
                /\ \A t \in Threads :
                       (tag'[t] = g /\ Locals(t)' # Locals(t)) =>
                           pc'[t] # "returned"
       /\ \A t \in Threads :
            pc[t] = "new:wait" =>
                /\ pc'[t] = "new:wait"
                /\ instance_'[tag[t]] = kBeingCreatedMarker]_vars

\* A creator waits inside its own constructor for the instance it is creating
\* while another caller waits for the same instance.
C15_Witness ==
    \E t, u \in Threads :
        /\ t # u /\ tag[t] = tag[u]
        /\ pc[t] = "new:wait" /\ pc[u] = "wait"
        /\ instance_[tag[t]] = kBeingCreatedMarker

\* C16: the word of an instance changes only in the step of the thread whose
\* compare-and-swap finds 0 (to the marker) and in that thread's release-store
\* (to newval); a compare-and-swap that fails and every turn of the wait loop
\* leave all words as they are, so each word is written at most twice: the
\* marker, then the one stored value.
C16_OnlyCreatorWrites ==
    /\ [](\A g \in Tags :
            \/ stores[g] = << >>
            \/ stores[g] = <<kBeingCreatedMarker>>
            \/ Len(stores[g]) = 2 /\ stores[g][1] = kBeingCreatedMarker)
    /\ [][/\ \A g \in Tags :
               instance_'[g] # instance_[g] =>
                   \E t \in Threads :
                       /\ tag[t] = g
                       /\ \/ /\ pc[t] = "cas" /\ pc'[t] = "new"
                             /\ instance_[g] = 0
                             /\ instance_'[g] = kBeingCreatedMarker
                          \/ /\ pc[t] = "store" /\ pc'[t] = "register"
                             /\ instance_[g] = kBeingCreatedMarker
                             /\ instance_'[g] = newval[t]
                             /\ casWins[g] = 1
          /\ \A t \in Threads :
               (pc[t] = "cas" /\ pc'[t] = "wait") => instance_' = instance_
          /\ \A t \in Threads :
               (pc[t] = "wait" /\ Locals(t)' # Locals(t)) =>
                   instance_' = instance_]_vars

\* A caller that loaded 0 lost its compare-and-swap and stands in the wait
\* loop after the creator's release-store; the word was written exactly twice.
C16_Witness ==
    \E t \in Threads :
        /\ pc[t] = "wait" /\ value[t] = 0
        /\ instance_[tag[t]] \in Addrs
        /\ stores[tag[t]] = <<kBeingCreatedMarker, instance_[tag[t]]>>

\* C17: the code's compare-and-swap after a load that found the marker always
\* fails and changes nothing but the caller's position, which becomes the wait
\* loop; and the specified machine's direct move from such a load to the wait
\* loop is exactly the code's load followed at once by its compare-and-swap.
\* So both machines write the same word values, make the same calls of
\* Traits::New and return the same values.
C17_SwapAfterMarkerIsSilent ==
    [][/\ \A t \in Threads :
            (/\ pc[t] = "cas"
             /\ value[t] = kBeingCreatedMarker
             /\ Locals(t)' # Locals(t)) =>
                /\ pc'[t] = "wait"
                /\ tag'[t] = tag[t]
                /\ result'[t] = result[t]
                /\ instance_' = instance_
                /\ stores' = stores
                /\ released' = released
                /\ casWins' = casWins
                /\ newCalls' = newCalls
                /\ allocated' = allocated
       /\ \A t \in Threads, g \in Tags :
            SpecLoadBeingCreated(t, g) => LoadThenSwap(t, g)]_vars

\* A caller loaded the marker and is about to try its compare-and-swap on a
\* word that meanwhile holds the address the creator stored.
C17_Witness ==
    \E t \in Threads :
        /\ pc[t] = "cas" /\ value[t] = kBeingCreatedMarker
        /\ instance_[tag[t]] \in Addrs
        /\ stores[tag[t]] = <<kBeingCreatedMarker, instance_[tag[t]]>>

====
